---------------------------- MODULE Spec2Model ----------------------------
(***************************************************************************)
(* filmweb-export-rs: harvesting of rated titles (src/src/main.rs) and the *)
(* per-title IMDb lookup, duration check and CSV export (src/src/lib.rs).  *)
(*                                                                         *)
(* Three specifications share the module:                                  *)
(*   SpecDuration  FwRatedTitle::is_duration_ok over bounded durations     *)
(*   SpecLinker    FwRatedTitle::get_imdb_data_logic, one lookup per step  *)
(*   Spec          main(): scrape_fw, imdb_scraping_thread, review, report *)
(***************************************************************************)
EXTENDS Integers, Sequences, FiniteSets, TLC

\* Option<T>: None is the empty sequence, Some(x) the one-element sequence
None == <<>>
Some(x) == <<x>>

(***************************************************************************)
(* Program constants.                                                      *)
(***************************************************************************)
\* lib.rs:393  `imdb_duration <= 60_f64 && fw_duration <= 60_u16`
ShortDuration == 60
\* lib.rs:394  (imdb_duration * 1.50, imdb_duration * 0.75), in hundredths
UpperWide == 150
LowerWide == 75
\* lib.rs:396  (imdb_duration * 1.15, imdb_duration * 0.85), in hundredths
UpperTight == 115
LowerTight == 85
\* the scale of the four multipliers above (hundredths)
Scale == 100

(***************************************************************************)
(* Bounds of the model.                                                    *)
(***************************************************************************)
\* durations (minutes) drawn for SpecDuration: 1..MaxDuration
MaxDuration == 200

\* alternate titles a title page may list: a queue holds at most MaxAlterTitles
MaxAlterTitles == 6

\* ARGS.threads is drawn from 1..MaxThreads (the program allows 1..6)
MaxThreads == 2
\* the three categories together have at most MaxTotalPages pages
MaxTotalPages == 3
\* a page of the site lists MaxTitlesPerPage titles
MaxTitlesPerPage == 2
\* pages of one category where Stage A is taken alone
MaxCategoryPages == 2

\* numeric tokens in the duration slot of a detail page where get_imdb_data
\* is taken alone: at most MaxTokens
MaxTokens == 3

VARIABLES
    threads,         \* ARGS.threads
    pages,           \* films_pages, serials_pages, wants2see_pages (main.rs:86-88)
    total_pages,     \* main.rs:89
    main_pc,         \* main: "scrape", "join", "review", "print_failed", "done", "panicked"
    cat,             \* main: index into Categories of the scrape_fw call running
    a_tasks,         \* scrape_fw: page index -> "queued", "running", "done"
    error_happened,  \* scrape_fw: the AtomicBool
    channel,         \* the mpsc channel of FwPage (tx -> rx)
    b_pc,            \* imdb_scraping_thread: "recv", "wait", "finished", "panicked"
    b_i,             \* imdb_scraping_thread: the loop counter i
    b_tasks,         \* imdb_scraping_thread: the spawned tasks, in spawn order
    exported_pages,  \* Arc<Mutex<Vec<FwPage>>>
    export_files,    \* ExportFiles: the rows written to each file
    rev,             \* main: the review loop's position (page, title)
    exit_status,     \* None while the process runs, Some(code) once it ended
    sent,            \* history: page_type -> times sent on the channel
    received,        \* history: page_type -> times received from the channel
    link_log,        \* history: fw_id -> [runs, result] of get_imdb_data_logic
    prompts,         \* history: fw_id -> prompts issued; the last prompt and its answer
    export_log,      \* history: fw_id -> the files a row of the title was written to
    err_seen,        \* history: the errors scrape_from_page returned, with the page
    d_title,      \* SpecDuration: the FwRatedTitle under test (fw_duration, imdb_data)
    d_result,     \* SpecDuration: None, or Some(what is_duration_ok returned)
    l_title,      \* SpecLinker: the FwRatedTitle get_imdb_data_logic runs on
    l_pc,         \* SpecLinker: "pop", "advanced", "exact", "done", "panicked"
    l_cur,        \* SpecLinker: Some(the popped (alternate_title, score)) or None
    l_pops,       \* SpecLinker: history, every (item, priority) popped, in order
    l_attempts,   \* SpecLinker: history, every strategy call made, in order
    u_in,         \* the specifications of one call: the arguments of the call
    u_out         \* the specifications of one call: None, or Some(what it returned)

dvars == <<d_title, d_result>>
lvars == <<l_title, l_pc, l_cur, l_pops, l_attempts>>
pvars == <<threads, pages, total_pages, main_pc, cat, a_tasks, error_happened, channel,
           b_pc, b_i, b_tasks, exported_pages, export_files, rev, exit_status,
           sent, received, link_log, prompts, export_log, err_seen>>
uvars == <<u_in, u_out>>
vars == <<dvars, lvars, pvars, uvars>>

\* the variables of a specification that is not running keep these values
IdleDuration == d_title = [fw_duration |-> None, imdb_data |-> None] /\ d_result = None
IdleUnit == u_in = None /\ u_out = None
IdleLinker ==
    /\ l_title = None
    /\ l_pc = "idle"
    /\ l_cur = None
    /\ l_pops = <<>>
    /\ l_attempts = <<>>
IdlePipeline ==
    /\ threads = 0
    /\ pages = <<>>
    /\ total_pages = 0
    /\ main_pc = "idle"
    /\ cat = 0
    /\ a_tasks = <<>>
    /\ error_happened = FALSE
    /\ channel = <<>>
    /\ b_pc = "idle"
    /\ b_i = 0
    /\ b_tasks = <<>>
    /\ exported_pages = <<>>
    /\ export_files = <<>>
    /\ rev = <<>>
    /\ exit_status = None
    /\ sent = <<>>
    /\ received = <<>>
    /\ link_log = <<>>
    /\ prompts = <<>>
    /\ export_log = <<>>
    /\ err_seen = {}

(***************************************************************************)
(* FwRatedTitle::is_duration_ok (lib.rs:380-404).                          *)
(* The f64 products imdb_duration * k are kept as exact hundredths:        *)
(* upper >= fw  is  d*K >= fw*100.  For k = 0.75, 1.50 the f64 product is  *)
(* exact; for k = 0.85 it rounds to the same side of every integer; for    *)
(* k = 1.15 it can round one ulp below an integer (100*1.15), which only   *)
(* changes `upper >= fw` where fw = 1.15*d, and there `lower >= fw` is     *)
(* false already, so the conjunction is the same.                          *)
(***************************************************************************)
DurationBounds(imdb_duration, fw_duration) ==
    IF imdb_duration <= ShortDuration /\ fw_duration <= ShortDuration
    THEN [upper |-> imdb_duration * UpperWide, lower |-> imdb_duration * LowerWide]
    ELSE [upper |-> imdb_duration * UpperTight, lower |-> imdb_duration * LowerTight]

\* mutants of the comparison at lib.rs:400
DoesNotFit_UpperOnly(b, fw_duration) ==
    b.upper >= fw_duration * Scale

DoesNotFit_StrictLower(b, fw_duration) ==
    b.upper >= fw_duration * Scale /\ b.lower > fw_duration * Scale

\* lib.rs:400  `upper >= fw_duration.into() && lower >= fw_duration.into()`
DoesNotFit(b, fw_duration) ==
    b.upper >= fw_duration * Scale /\ b.lower >= fw_duration * Scale

\* mutant: a title without a duration of its own cannot be corroborated
is_duration_ok_NoSourceFails(t) ==
    IF t.imdb_data = None \/ t.fw_duration = None THEN FALSE
    ELSE ~DoesNotFit(DurationBounds(t.imdb_data[1].duration, t.fw_duration[1]),
                     t.fw_duration[1])

is_duration_ok(t) ==
    IF t.imdb_data = None THEN FALSE
    ELSE IF t.fw_duration = None THEN TRUE
    ELSE ~DoesNotFit(DurationBounds(t.imdb_data[1].duration, t.fw_duration[1]),
                     t.fw_duration[1])

(***************************************************************************)
(* AlternateTitle (lib.rs:126-130) and its score (lib.rs:699-717).         *)
(* A label is the set of the words it contains: `language.contains(m)` is  *)
(* m \in language.  The Polish markers are written in ASCII ("glowny" for  *)
(* the code's "główny", "inny tytul" for "inny tytuł").     *)
(***************************************************************************)
\* mutant: the main-title marker is tested before the original-title marker
score_title_MainFirst(language) ==
    IF "USA" \in language \/ "angielski" \in language THEN 10
    ELSE IF "glowny" \in language THEN 8
    ELSE IF "oryginalny" \in language THEN 9
    ELSE IF "alternatywna pisownia" \in language THEN 7
    ELSE IF "inny tytul" \in language THEN 6
    ELSE IF "Polska" \in language THEN 5
    ELSE 0

score_title(language) ==
    IF "USA" \in language \/ "angielski" \in language THEN 10
    ELSE IF "oryginalny" \in language THEN 9
    ELSE IF "glowny" \in language THEN 8
    ELSE IF "alternatywna pisownia" \in language THEN 7
    ELSE IF "inny tytul" \in language THEN 6
    ELSE IF "Polska" \in language THEN 5
    ELSE 0

\* lib.rs:412  u8::MIN, the score of a label with no known marker
FloorScore == 0

AlternateTitle(title, language) == [language |-> language, title |-> title]

\* the (title, label) pairs a titles page can list (lib.rs:753-764, 786-794)
AlterPool ==
    { AlternateTitle("Title", {"USA"}),
      AlternateTitle("South Park", {"USA", "Tytul", "oryginalny"}),
      AlternateTitle("Los Titulos", {"tytul", "oryginalny"}),
      AlternateTitle("The Title", {"tytul", "glowny"}),
      AlternateTitle("Titles", {"alternatywna pisownia"}),
      AlternateTitle("Tytul", {"Polska"}),
      AlternateTitle("Titulo", {"Hiszpanski"}) }

(***************************************************************************)
(* PriorityQueue<AlternateTitle, u8>: a set of (item, priority), one entry *)
(* per item.  pop() removes an entry of the greatest priority; which one   *)
(* among equal priorities is not specified by the container.               *)
(***************************************************************************)
\* mutant: the title's Polish title is pushed along with the listed ones
fw_get_titles_WithCanonical(listed) ==
    { [item |-> a, priority |-> score_title(a.language)] :
        a \in listed \cup { [language |-> {"Polska", "glowny"}, title |-> "Tytul PL"] } }

\* lib.rs:725-736  fw_get_titles: push every listed (title, label) with its score
fw_get_titles(listed) ==
    { [item |-> a, priority |-> score_title(a.language)] : a \in listed }

\* mutant: the queue hands out its entries in any order
PopChoices_AnyOrder(q) == q

\* the entries pop() may return
PopChoices(q) == { x \in q : \A y \in q : y.priority <= x.priority }

\* mutant: the floor test is dropped
IsFloor_Never(score) == FALSE

\* lib.rs:412  `if score == u8::MIN { break; }`
IsFloor(score) == score = FloorScore

(***************************************************************************)
(* The two lookup strategies.  What IMDb answers is the environment's      *)
(* choice; the functions below turn an answer into the strategy's result   *)
(* as the code does.  A result is [tag |-> "Ok", data |-> IMDbApiDetails], *)
(* [tag |-> "Err"] or, where the code indexes or unwraps without a check,  *)
(* [tag |-> "Panic"].                                                      *)
(***************************************************************************)
\* the id IMDb lists for a title (the first search result's id)
ImdbIdOf(title) ==
    CASE title = "Title" -> 1000001
      [] title = "South Park" -> 121955
      [] title = "Los Titulos" -> 1000003
      [] title = "The Title" -> 1000004
      [] title = "Titles" -> 1000005
      [] title = "Tytul" -> 1000006
      [] OTHER -> 1000007

\* the runtime (minutes) IMDb reports for a candidate
ImdbDurations == {100}

Ok(id, duration) == [tag |-> "Ok", data |-> [id |-> id, duration |-> duration]]
Err == [tag |-> "Err", data |-> [id |-> 0, duration |-> 0]]
Panic == [tag |-> "Panic", data |-> [id |-> 0, duration |-> 0]]

\* answers of the listing search: transport failure, no listing item, a
\* listing without .runtime, a runtime that is no number, a numeric runtime
AdvancedResponses ==
    { [kind |-> k, runtime |-> 0] : k \in {"transport", "zero_results", "no_runtime", "bad_runtime"} }
    \cup { [kind |-> "listing", runtime |-> m] : m \in ImdbDurations }

\* lib.rs:430-495
get_imdb_data_advanced(title, resp) ==
    IF resp.kind = "listing" THEN Ok(ImdbIdOf(title), resp.runtime) ELSE Err

\* the numeric tokens of the detail page's duration slot
TokenLists == { <<>>, <<100>>, <<1, 40>>, <<1, 40, 7>> }

\* answers of the find endpoint and the detail page: transport failure, no
\* result, fewer list items than the slot addressed, a slot longer than 40
\* bytes, or a slot with the given numeric tokens
ExactResponses ==
    { [kind |-> k, tokens |-> <<>>] : k \in {"transport", "zero_results", "no_slot", "too_long"} }
    \cup { [kind |-> "detail", tokens |-> t] : t \in TokenLists }

\* lib.rs:559-570
ParseDuration(tokens) ==
    IF Len(tokens) >= 2 THEN Some(tokens[1] * 60 + tokens[2])
    ELSE IF Len(tokens) = 1 THEN Some(tokens[1])
    ELSE None    \* dirty_duration[0] on an empty Vec: index out of bounds

\* lib.rs:497-587
get_imdb_data(title, resp) ==
    CASE resp.kind \in {"transport", "zero_results", "too_long"} -> Err
      [] resp.kind = "no_slot" -> Panic      \* .nth(nth).expect(..), lib.rs:544
      [] OTHER ->
           IF ParseDuration(resp.tokens) = None THEN Panic
           ELSE Ok(ImdbIdOf(title), ParseDuration(resp.tokens)[1])

(***************************************************************************)
(* SpecLinker: FwRatedTitle::get_imdb_data_logic (lib.rs:406-428), one     *)
(* queue pop or one strategy call per step.                                *)
(***************************************************************************)
Queues == { fw_get_titles(l) : l \in { s \in SUBSET AlterPool : Cardinality(s) <= MaxAlterTitles } }

LTitle(q) ==
    [fw_id |-> 1, fw_title_pl |-> "Tytul PL", fw_alter_titles |-> Some(q),
     title_type |-> "Film", fw_duration |-> Some(50), year |-> <<1997, 1997>>,
     rating |-> Some([rate |-> 7, favorite |-> FALSE]), imdb_data |-> None]

InitLinker ==
    /\ l_title \in { LTitle(q) : q \in Queues }
    /\ l_pc = "pop"
    /\ l_cur = None
    /\ l_pops = <<>>
    /\ l_attempts = <<>>
    /\ IdleDuration
    /\ IdlePipeline
    /\ IdleUnit

LQueue == l_title.fw_alter_titles[1]

\* lib.rs:411  `while let Some(..) = self.fw_alter_titles.as_mut().unwrap().pop()`
LPopEmpty ==
    /\ l_pc = "pop"
    /\ LQueue = {}
    /\ l_pc' = "done"
    /\ UNCHANGED <<l_title, l_cur, l_pops, l_attempts, dvars, pvars, uvars>>

\* lib.rs:411-414
LPop ==
    /\ l_pc = "pop"
    /\ \E x \in PopChoices(LQueue) :
         /\ l_title' = [l_title EXCEPT !.fw_alter_titles = Some(LQueue \ {x})]
         /\ l_pops' = Append(l_pops, x)
         /\ IF IsFloor(x.priority)
            THEN l_pc' = "done" /\ l_cur' = None
            ELSE l_pc' = "advanced" /\ l_cur' = Some(x)
    /\ UNCHANGED <<l_attempts, dvars, pvars, uvars>>

\* mutant: a plain `break` for `break 'main`: the match is set and the
\* loop goes on to the next pop
LAdvanced_BreakInner ==
    /\ l_pc = "advanced"
    /\ \E resp \in AdvancedResponses :
         LET r == get_imdb_data_advanced(l_cur[1].item.title, resp) IN
         /\ l_attempts' = Append(l_attempts,
                [strategy |-> "advanced", item |-> l_cur[1].item,
                 score |-> l_cur[1].priority, tag |-> r.tag])
         /\ IF r.tag = "Ok"
            THEN /\ l_title' = [l_title EXCEPT !.imdb_data = Some(r.data)]
                 /\ l_pc' = "pop"
                 /\ l_cur' = None
            ELSE /\ l_pc' = "exact"
                 /\ UNCHANGED <<l_title, l_cur>>
    /\ UNCHANGED <<l_pops, dvars, pvars, uvars>>

\* lib.rs:416-421  i = 1
LAdvanced ==
    /\ l_pc = "advanced"
    /\ \E resp \in AdvancedResponses :
         LET r == get_imdb_data_advanced(l_cur[1].item.title, resp) IN
         /\ l_attempts' = Append(l_attempts,
                [strategy |-> "advanced", item |-> l_cur[1].item,
                 score |-> l_cur[1].priority, tag |-> r.tag])
         /\ IF r.tag = "Ok"
            THEN /\ l_title' = [l_title EXCEPT !.imdb_data = Some(r.data)]
                 /\ l_pc' = "done"
                 /\ l_cur' = None
            ELSE /\ l_pc' = "exact"
                 /\ UNCHANGED <<l_title, l_cur>>
    /\ UNCHANGED <<l_pops, dvars, pvars, uvars>>

\* lib.rs:422-425  i = 2
LExact ==
    /\ l_pc = "exact"
    /\ \E resp \in ExactResponses :
         LET r == get_imdb_data(l_cur[1].item.title, resp) IN
         /\ l_attempts' = Append(l_attempts,
                [strategy |-> "exact", item |-> l_cur[1].item,
                 score |-> l_cur[1].priority, tag |-> r.tag])
         /\ CASE r.tag = "Ok" ->
                   /\ l_title' = [l_title EXCEPT !.imdb_data = Some(r.data)]
                   /\ l_pc' = "done"
                   /\ l_cur' = None
              [] r.tag = "Panic" ->
                   /\ l_pc' = "panicked"
                   /\ UNCHANGED <<l_title, l_cur>>
              [] OTHER ->
                   /\ l_pc' = "pop"
                   /\ l_cur' = None
                   /\ UNCHANGED l_title
    /\ UNCHANGED <<l_pops, dvars, pvars, uvars>>

NextLinker == LPopEmpty \/ LPop \/ LAdvanced \/ LExact

SpecLinker == InitLinker /\ [][NextLinker]_vars

\* the scores of the two histories, in order
PoppedScores == [i \in DOMAIN l_pops |-> l_pops[i].priority]
AttemptedScores == [i \in DOMAIN l_attempts |-> l_attempts[i].score]

\* no strategy is ever called with a floor-score title, and a popped
\* floor-score entry is the last one popped: the search has ended
FloorNeverAttempted ==
    /\ \A i \in DOMAIN l_attempts : l_attempts[i].score # FloorScore
    /\ \A i \in DOMAIN l_pops :
         l_pops[i].priority = FloorScore => (i = Len(l_pops) /\ l_pc = "done")

\* C1 as stated: the titles are attempted in strictly descending score
\* order (a later title always has a strictly smaller score than an earlier
\* one), and no strategy is called with a floor-score (0) title: the search
\* stops at the first popped entry of score 0.
C1_StrictlyDescending ==
    /\ \A i, j \in DOMAIN l_attempts :
         (i < j /\ l_attempts[i].item # l_attempts[j].item)
         => l_attempts[i].score > l_attempts[j].score
    /\ FloorNeverAttempted

\* C1 amended: the titles are attempted in non-increasing score order (two
\* titles of equal score are both attempted, in either order; titles of
\* different scores strictly by descending score), every strategy call is
\* for the entry popped last, and no strategy is called with a floor-score
\* title: the search stops at the first popped entry of score 0.
C1_NonIncreasing ==
    /\ \A i, j \in DOMAIN l_attempts :
         i < j => l_attempts[i].score >= l_attempts[j].score
    /\ \A i, j \in DOMAIN l_pops :
         i < j => l_pops[i].priority >= l_pops[j].priority
    /\ \A i \in DOMAIN l_attempts :
         \E k \in DOMAIN l_pops : l_attempts[i].item = l_pops[k].item
    /\ FloorNeverAttempted

\* C1 witness: scores [10, 9, 8, 7, 5, 0] were popped in that order, the
\* first five were attempted with both strategies and the sixth with none.
C1_Witness ==
    /\ l_pc = "done"
    /\ PoppedScores = <<10, 9, 8, 7, 5, 0>>
    /\ AttemptedScores = <<10, 10, 9, 9, 8, 8, 7, 7, 5, 5>>



(***************************************************************************)
(* SpecDuration: a title with any source duration and any candidate, then  *)
(* one call of is_duration_ok.                                             *)
(***************************************************************************)
Durations == 1..MaxDuration

DTitles ==
    [fw_duration : {None} \cup {Some(m) : m \in Durations},
     imdb_data : {None} \cup {Some([id |-> 1, duration |-> m]) : m \in Durations}]

InitDuration ==
    /\ d_title \in DTitles
    /\ d_result = None
    /\ IdleLinker
    /\ IdlePipeline
    /\ IdleUnit

CheckDuration ==
    /\ d_result = None
    /\ d_result' = Some(is_duration_ok(d_title))
    /\ UNCHANGED <<d_title, lvars, pvars, uvars>>

NextDuration == CheckDuration

SpecDuration == InitDuration /\ [][NextDuration]_vars

(***************************************************************************)
(* The tolerance band as the specification words it, in exact arithmetic:  *)
(* both durations <= 60: [0.75c, 1.50c]; otherwise [0.85c, 1.15c].         *)
(***************************************************************************)
BandLower(c, fw) == IF c <= 60 /\ fw <= 60 THEN 75 * c ELSE 85 * c
BandUpper(c, fw) == IF c <= 60 /\ fw <= 60 THEN 150 * c ELSE 115 * c

DBothPresent == d_title.fw_duration # None /\ d_title.imdb_data # None
DSource == d_title.fw_duration[1]
DCandidate == d_title.imdb_data[1].duration

\* C2: a source duration outside the tolerance band (below the lower bound or
\* above the upper bound) makes is_duration_ok return false (NeedsReview).
C2_OutsideBandNeedsReview ==
    (/\ d_result # None
     /\ DBothPresent
     /\ \/ 100 * DSource < BandLower(DCandidate, DSource)
        \/ 100 * DSource > BandUpper(DCandidate, DSource))
    => d_result = Some(FALSE)

\* C3 as stated: a source duration within the inclusive band (bounds
\* included) makes is_duration_ok return true (Confirmed).
C3_InclusiveBandConfirmed ==
    (/\ d_result # None
     /\ DBothPresent
     /\ BandLower(DCandidate, DSource) <= 100 * DSource
     /\ 100 * DSource <= BandUpper(DCandidate, DSource))
    => d_result = Some(TRUE)

\* C3 amended: a source duration within the band with the lower bound
\* excluded (lower < source <= upper) makes is_duration_ok return true; a
\* source duration equal to the lower bound is NeedsReview.
C3_AboveLowerBoundConfirmed ==
    (/\ d_result # None
     /\ DBothPresent)
    => /\ (/\ BandLower(DCandidate, DSource) < 100 * DSource
           /\ 100 * DSource <= BandUpper(DCandidate, DSource))
          => d_result = Some(TRUE)
       /\ 100 * DSource = BandLower(DCandidate, DSource)
          => d_result = Some(FALSE)

\* C3 witness: source=55, candidate=50 has been classified Confirmed.
C3_Witness ==
    /\ DBothPresent
    /\ DSource = 55
    /\ DCandidate = 50
    /\ d_result = Some(TRUE)


(***************************************************************************)
(* Spec: main() (main.rs:70-136) with scrape_fw (main.rs:173-238) and      *)
(* imdb_scraping_thread (main.rs:240-270).                                 *)
(***************************************************************************)
Running == exit_status = None

\* main.rs:95-99
Categories == <<"Film", "Serial", "WantsToSee">>

\* main.rs:86  the number of titles a page holds
PageSize == 25

\* `as u8` and u8 arithmetic
U8(n) == n % 256

\* main.rs:86-88  (count / 25 + 1) as u8
PagesOf(count) == U8((count \div PageSize) + 1)

\* main.rs:89  films_pages + serials_pages + wants2see_pages
TotalPages(pg) == U8(U8(pg[1] + pg[2]) + pg[3])

\* the title counts get_counts may report
CountChoices == { PageSize * k : k \in 0..MaxTotalPages }

PageType(c, i) == [kind |-> Categories[c], number |-> i]

PageTypes == { PageType(c, i) : c \in 1..3, i \in 1..MaxTotalPages }

\* the id of the k-th title of a page (data-film-id)
FwId(c, i, k) == 100 * c + 10 * i + k

FwIds == { FwId(c, i, k) : c \in 1..3, i \in 1..MaxTotalPages, k \in 1..MaxTitlesPerPage }

(***************************************************************************)
(* FwPage::scrape_from_page (lib.rs:251-375).  A page lists vote boxes;    *)
(* what the site shows in each is the environment's choice.                *)
(***************************************************************************)
\* str::parse::<u16> on the texts the vote boxes show
ParseU16(text) ==
    CASE text = "1997" -> Some(1997)
      [] text = "2015" -> Some(2015)
      [] text = "2019" -> Some(2019)
      [] OTHER -> None

OneYear(y) == [kind |-> "OneYear", start |-> y, end |-> y]
Range(a, b) == [kind |-> "Range", start |-> a, end |-> b]

\* lib.rs:276-294  a year text is given split at '-'; years[0] of a range is
\* taken to parse (lib.rs:278-281 panics otherwise)
ParseYear(parts) ==
    IF Len(parts) >= 2
    THEN LET year_start == ParseU16(parts[1])[1]
             year_end == ParseU16(parts[2])
         IN  Some(Range(year_start, IF year_end = None THEN year_start ELSE year_end[1]))
    ELSE IF ParseU16(parts[1]) = None THEN None
         ELSE Some(OneYear(ParseU16(parts[1])[1]))

\* the alternate titles every title page lists in Spec
ListedTitles ==
    { AlternateTitle("Title", {"USA"}), AlternateTitle("Titulo", {"Hiszpanski"}) }

\* the duration the site shows for the k-th title of a page: none on the
\* watchlist, 50 minutes for the titles at odd positions, 100 for the others
SiteDuration(kind, k) ==
    IF kind = "WantsToSee" THEN None
    ELSE IF k % 2 = 1 THEN Some(50) ELSE Some(100)

\* the k-th vote box of a page: the year text, whether the vote-details
\* call answers with JSON (the JWT is still valid), the vote and the
\* duration on the title page.  The votes of the site's films are plain,
\* those of its serials favorites.
VoteBoxes(kind, k) ==
    LET years == IF kind = "Serial" THEN {<<"2015", "">>, <<"abc">>} ELSE {<<"1997">>, <<"abc">>}
        jwts == IF kind = "WantsToSee" THEN {TRUE} ELSE BOOLEAN
    IN  { [year |-> y, jwt_ok |-> j, favorite |-> (kind = "Serial"),
           fw_duration |-> SiteDuration(kind, k)] : y \in years, j \in jwts }

\* what a page of the site may list: MaxTitlesPerPage vote boxes
SiteListings(kind) ==
    { l \in [1..MaxTitlesPerPage -> UNION { VoteBoxes(kind, k) : k \in 1..MaxTitlesPerPage }] :
        \A k \in 1..MaxTitlesPerPage : l[k] \in VoteBoxes(kind, k) }

\* lib.rs:316-345  None for a WantsToSee page, the vote otherwise
RatingOf(kind, box) ==
    IF kind = "WantsToSee" THEN None ELSE Some([rate |-> 7, favorite |-> box.favorite])

\* the queue made of the titles the titles page lists (fw_alter_titles
\* of the record pushed at lib.rs:362-372)
ListedQueue == fw_get_titles(ListedTitles)

\* lib.rs:362-372
FwRatedTitle(page_type, k, box) ==
    [fw_id |-> FwId(CHOOSE c \in 1..3 : Categories[c] = page_type.kind, page_type.number, k),
     fw_title_pl |-> "Tytul PL",
     fw_alter_titles |-> Some(ListedQueue),
     title_type |-> page_type.kind,
     fw_duration |-> box.fw_duration,
     year |-> ParseYear(box.year)[1],
     rating |-> RatingOf(page_type.kind, box),
     imdb_data |-> None]

\* the error the k-th vote box makes scrape_from_page return, if any
BoxError(kind, box) ==
    IF ParseYear(box.year) = None THEN "InvalidYear"          \* lib.rs:288
    ELSE IF kind # "WantsToSee" /\ ~box.jwt_ok THEN "InvalidJwt"   \* lib.rs:341
    ELSE "none"

\* lib.rs:251-375  [err, page]: the first failing vote box ends the scrape
scrape_from_page(page_type, listing) ==
    LET bad == { k \in DOMAIN listing : BoxError(page_type.kind, listing[k]) # "none" }
        first == CHOOSE k \in bad : \A j \in bad : k <= j
    IN  IF bad # {}
        THEN [err |-> BoxError(page_type.kind, listing[first]),
              page |-> [page_type |-> page_type, rated_titles |-> <<>>]]
        ELSE [err |-> "none",
              page |-> [page_type |-> page_type,
                        rated_titles |-> [k \in DOMAIN listing |->
                                             FwRatedTitle(page_type, k, listing[k])]]]

\* main.rs:80-92  the state when main starts scraping, the page counts given
InitMain ==
    /\ threads \in 1..MaxThreads
    /\ total_pages = TotalPages(pages)
    /\ main_pc = "scrape"
    /\ cat = 0
    /\ a_tasks = <<>>
    /\ error_happened = FALSE
    /\ channel = <<>>
    /\ b_pc = "recv"
    /\ b_i = 0
    /\ b_tasks = <<>>
    /\ exported_pages = <<>>
    /\ export_files = [generic |-> <<>>, want2see |-> <<>>, favorited |-> <<>>]
    /\ rev = <<1, 1>>
    /\ exit_status = None
    /\ sent = [t \in PageTypes |-> 0]
    /\ received = [t \in PageTypes |-> 0]
    /\ link_log = [id \in FwIds |-> [runs |-> 0, result |-> "none"]]
    /\ prompts = [asked |-> [id \in FwIds |-> 0], last |-> None]
    /\ export_log = [id \in FwIds |-> <<>>]
    /\ err_seen = {}
    /\ IdleDuration
    /\ IdleLinker
    /\ IdleUnit

Init ==
    /\ \E films, serials, marked_to_see \in CountChoices :
         /\ pages = <<PagesOf(films), PagesOf(serials), PagesOf(marked_to_see)>>
         /\ PagesOf(films) + PagesOf(serials) + PagesOf(marked_to_see) <= MaxTotalPages
    /\ InitMain

(***************************************************************************)
(* Stage A: scrape_fw (main.rs:173-238).                                   *)
(***************************************************************************)
ARunning == { i \in DOMAIN a_tasks : a_tasks[i] = "running" }

\* mutant: the InvalidJwt arm reports and goes on
JwtExit_GoesOn == None

\* main.rs:212  std::process::exit(1)
JwtExit == Some(1)

\* mutant: the InvalidYear arm logs the title and skips it
YearExit_Skips == None

\* main.rs:218  std::process::exit(1)
YearExit == Some(1)

\* main.rs:100, 187-195  the call for the next category: the pool is built
\* and the scope's closure spawns one task per page index 1..=total_pages
ScrapeFwEnter ==
    /\ Running
    /\ main_pc = "scrape"
    /\ cat < Len(Categories)
    /\ cat' = cat + 1
    /\ a_tasks' = [i \in 1..pages[cat + 1] |-> "queued"]
    /\ error_happened' = FALSE
    /\ main_pc' = "scope"
    /\ UNCHANGED <<threads, pages, total_pages, channel, b_pc, b_i, b_tasks, exported_pages,
                   export_files, rev, exit_status, sent, received, link_log, prompts,
                   export_log, err_seen, dvars, lvars, uvars>>

\* a pool thread takes a spawned task (main.rs:196-202)
ATaskStart(i) ==
    /\ Running
    /\ main_pc = "scope"
    /\ a_tasks[i] = "queued"
    /\ Cardinality(ARunning) < threads
    /\ a_tasks' = [a_tasks EXCEPT ![i] = "running"]
    /\ UNCHANGED <<threads, pages, total_pages, main_pc, cat, error_happened, channel, b_pc,
                   b_i, b_tasks, exported_pages, export_files, rev, exit_status, sent,
                   received, link_log, prompts, export_log, err_seen, dvars, lvars, uvars>>

\* main.rs:203-227  the page is scraped; an error ends the process, a
\* scraped page is sent on the channel
ATaskFinish(i) ==
    /\ Running
    /\ main_pc = "scope"
    /\ a_tasks[i] = "running"
    /\ \E listing \in SiteListings(Categories[cat]) :
         LET r == scrape_from_page(PageType(cat, i), listing) IN
         CASE r.err = "InvalidJwt" ->
                /\ err_seen' = err_seen \cup {[err |-> "InvalidJwt", page_type |-> PageType(cat, i)]}
                /\ error_happened' = FALSE
                /\ exit_status' = JwtExit
                /\ UNCHANGED <<channel, sent, a_tasks>>
           [] r.err = "InvalidYear" ->
                /\ err_seen' = err_seen \cup {[err |-> "InvalidYear", page_type |-> PageType(cat, i)]}
                /\ error_happened' = TRUE
                /\ exit_status' = YearExit
                /\ UNCHANGED <<channel, sent, a_tasks>>
           [] OTHER ->
                /\ channel' = Append(channel, r.page)
                /\ sent' = [sent EXCEPT ![r.page.page_type] = @ + 1]
                /\ a_tasks' = [a_tasks EXCEPT ![i] = "done"]
                /\ UNCHANGED <<err_seen, error_happened, exit_status>>
    /\ UNCHANGED <<threads, pages, total_pages, main_pc, cat, b_pc, b_i, b_tasks,
                   exported_pages, export_files, rev, received, link_log, prompts,
                   export_log, dvars, lvars, uvars>>

\* mutant: the scope returns as soon as no task is running
ScopeDone_NoneRunning == ARunning = {}

\* main.rs:193-230  pool.scope returns once every spawned task has
ScopeDone == \A i \in DOMAIN a_tasks : a_tasks[i] = "done"

\* main.rs:230-237  the scope has returned; the flag is read
ScrapeFwLeave ==
    /\ Running
    /\ main_pc = "scope"
    /\ ScopeDone
    /\ IF error_happened
       THEN exit_status' = Some(1) /\ UNCHANGED <<main_pc, a_tasks>>
       ELSE /\ main_pc' = IF cat = Len(Categories) THEN "join" ELSE "scrape"
            /\ a_tasks' = <<>>
            /\ UNCHANGED exit_status
    /\ UNCHANGED <<threads, pages, total_pages, cat, error_happened, channel, b_pc, b_i,
                   b_tasks, exported_pages, export_files, rev, sent, received, link_log,
                   prompts, export_log, err_seen, dvars, lvars, uvars>>

(***************************************************************************)
(* Stage B: imdb_scraping_thread (main.rs:240-270).                        *)
(***************************************************************************)
\* lib.rs:406-428 as one call: the titles it may leave behind.  panic is
\* TRUE where a strategy panicked (the title is then lost with the task).
RECURSIVE get_imdb_data_logic(_)
get_imdb_data_logic(t) ==
    LET q == t.fw_alter_titles[1] IN
    IF q = {} THEN { [title |-> t, panic |-> FALSE] }
    ELSE UNION {
        LET popped == [t EXCEPT !.fw_alter_titles = Some(q \ {x})]
            adv == { get_imdb_data_advanced(x.item.title, r) : r \in AdvancedResponses }
            exa == { get_imdb_data(x.item.title, r) : r \in ExactResponses }
            found(rs) == { [title |-> [popped EXCEPT !.imdb_data = Some(r.data)],
                            panic |-> FALSE] : r \in { a \in rs : a.tag = "Ok" } }
        IN  IF IsFloor(x.priority) THEN { [title |-> popped, panic |-> FALSE] }
            ELSE found(adv)
                 \cup (IF \E a \in adv : a.tag = "Err"
                       THEN found(exa)
                            \cup { [title |-> popped, panic |-> TRUE] :
                                     r \in { e \in exa : e.tag = "Panic" } }
                            \cup (IF \E e \in exa : e.tag = "Err"
                                  THEN get_imdb_data_logic(popped) ELSE {})
                       ELSE {})
        : x \in PopChoices(q) }

\* mutant: a title without imdb_data is printed as not found
print_title_NotFoundPrinted(title) == "printed"

\* main.rs:283-318  the `None => unreachable!()` arm at main.rs:297 is
\* evaluated before the match that would print a title as not found
print_title(title) ==
    IF title.imdb_data = None THEN "panic" ELSE "printed"

BRunning == { k \in DOMAIN b_tasks : b_tasks[k].state = "running" }

\* the scope's closure runs on a pool thread and holds it while it receives
BClosureThreads == IF b_pc = "recv" THEN 1 ELSE 0

\* main.rs:255-259  recv() blocks until a page is in the channel; the task
\* for the page is spawned
BRecv ==
    /\ Running
    /\ b_pc = "recv"
    /\ b_i < total_pages
    /\ channel # <<>>
    /\ channel' = Tail(channel)
    /\ received' = [received EXCEPT ![Head(channel).page_type] = @ + 1]
    /\ b_tasks' = Append(b_tasks, [state |-> "queued", page |-> Head(channel)])
    /\ b_i' = b_i + 1
    /\ b_pc' = IF b_i + 1 < total_pages THEN "recv" ELSE "wait"
    /\ UNCHANGED <<threads, pages, total_pages, main_pc, cat, a_tasks, error_happened,
                   exported_pages, export_files, rev, exit_status, sent, link_log, prompts,
                   export_log, err_seen, dvars, lvars, uvars>>

\* a pool thread takes a spawned task
BTaskStart(k) ==
    /\ Running
    /\ b_tasks[k].state = "queued"
    /\ Cardinality(BRunning) + BClosureThreads < threads
    /\ b_tasks' = [b_tasks EXCEPT ![k].state = "running"]
    /\ UNCHANGED <<threads, pages, total_pages, main_pc, cat, a_tasks, error_happened, channel,
                   b_pc, b_i, exported_pages, export_files, rev, exit_status, sent, received,
                   link_log, prompts, export_log, err_seen, dvars, lvars, uvars>>

\* main.rs:260-263  the titles from the n-th on: get_imdb_data_logic, then
\* print_title, for each in turn; a panic ends the loop.  results lists
\* what became of each title the loop reached.
RECURSIVE LinkTitles(_, _)
LinkTitles(titles, n) ==
    IF n > Len(titles)
    THEN { [titles |-> titles, panicked |-> FALSE, results |-> <<>>] }
    ELSE UNION {
        LET outcome == IF res.title.imdb_data = None THEN "not_found" ELSE "found" IN
        IF res.panic
        THEN { [titles |-> <<>>, panicked |-> TRUE, results |-> <<"panic">>] }
        ELSE IF print_title(res.title) = "panic"
        THEN { [titles |-> <<>>, panicked |-> TRUE, results |-> <<outcome>>] }
        ELSE { [r EXCEPT !.results = <<outcome>> \o @] :
                 r \in LinkTitles([titles EXCEPT ![n] = res.title], n + 1) }
        : res \in get_imdb_data_logic(titles[n]) }

\* main.rs:259-265  the task of one page: every title is linked and
\* printed, then the page is pushed; a panic unwinds the task and drops
\* its page
BTaskRun(k) ==
    /\ Running
    /\ b_tasks[k].state = "running"
    /\ LET titles == b_tasks[k].page.rated_titles IN
       \E out \in LinkTitles(titles, 1) :
         /\ link_log' = [id \in FwIds |->
                IF \E j \in DOMAIN out.results : titles[j].fw_id = id
                THEN [runs |-> link_log[id].runs + 1,
                      result |-> out.results[CHOOSE j \in DOMAIN out.results :
                                                titles[j].fw_id = id]]
                ELSE link_log[id]]
         /\ b_tasks' = [b_tasks EXCEPT
                          ![k].state = IF out.panicked THEN "panicked" ELSE "done",
                          ![k].page.rated_titles = <<>>]
         /\ exported_pages' =
              IF out.panicked THEN exported_pages
              ELSE Append(exported_pages,
                          [b_tasks[k].page EXCEPT !.rated_titles = out.titles])
    /\ UNCHANGED <<threads, pages, total_pages, main_pc, cat, a_tasks, error_happened, channel,
                   b_pc, b_i, export_files, rev, exit_status, sent, received, prompts,
                   export_log, err_seen, dvars, lvars, uvars>>

\* main.rs:254, 267-268  the scope returns once every task has ended, and
\* resumes the panic of a task that panicked; its tasks are gone
BScopeEnd ==
    /\ Running
    /\ b_pc = "wait"
    /\ \A k \in DOMAIN b_tasks : b_tasks[k].state \in {"done", "panicked"}
    /\ b_pc' = IF \E k \in DOMAIN b_tasks : b_tasks[k].state = "panicked"
               THEN "panicked" ELSE "finished"
    /\ b_tasks' = <<>>
    /\ UNCHANGED <<threads, pages, total_pages, main_pc, cat, a_tasks, error_happened, channel,
                   b_i, exported_pages, export_files, rev, exit_status, sent,
                   received, link_log, prompts, export_log, err_seen, dvars, lvars, uvars>>

(***************************************************************************)
(* main(): join, the review loop and the report (main.rs:103-135).         *)
(***************************************************************************)
\* mutant: main goes on without waiting for the thread
JoinReturns_NoWait == TRUE

\* main.rs:103  handle.join() returns once the thread has ended
JoinReturns == b_pc \in {"finished", "panicked"}

\* main.rs:103  .unwrap() on the result of join(): a panic of the thread
\* panics main; Rust ends the process with status 101
Join ==
    /\ Running
    /\ main_pc = "join"
    /\ JoinReturns
    /\ IF b_pc = "panicked"
       THEN main_pc' = "panicked" /\ exit_status' = Some(101)
       ELSE main_pc' = "review" /\ UNCHANGED exit_status
    /\ rev' = <<1, 1>>
    /\ UNCHANGED <<threads, pages, total_pages, cat, a_tasks, error_happened, channel, b_pc,
                   b_i, b_tasks, exported_pages, export_files, sent, received, link_log,
                   prompts, export_log, err_seen, dvars, lvars, uvars>>

\* what read_line may put into `decision`: a line is a sequence of characters
Answers == { <<"y", "\n">>, <<" ", "Y", "\n">>, <<"n", "\n">>, <<"\n">>, <<"x", "\n">> }

IsWhitespace(ch) == ch \in {" ", "\n", "\t", "\r"}

\* str::trim
RECURSIVE Trim(_)
Trim(str) ==
    IF str = <<>> THEN str
    ELSE IF IsWhitespace(Head(str)) THEN Trim(Tail(str))
    ELSE IF IsWhitespace(str[Len(str)]) THEN Trim(SubSeq(str, 1, Len(str) - 1))
    ELSE str

\* str::to_lowercase on the characters of Answers
ToLowercase(str) ==
    [i \in DOMAIN str |-> CASE str[i] = "Y" -> "y" [] str[i] = "N" -> "n"
                            [] str[i] = "X" -> "x" [] OTHER -> str[i]]

\* mutant: any answer that is not blank accepts
IsYes_NotBlank(decision) == Trim(decision) # <<>>

\* mutant: anything but an explicit "n" accepts
IsYes_UnlessNo(decision) == ToLowercase(Trim(decision)) # <<"n">>

\* main.rs:124  decision.trim().to_lowercase() == "y"
IsYes(decision) == ToLowercase(Trim(decision)) = <<"y">>

\* u8::to_string for the rates of the model
RateString(rate) == CASE rate = 7 -> "7" [] OTHER -> "?"

\* mutant: the favorite flag is not looked at
Bucket_NoFavorites(title) ==
    IF title.rating = None THEN "want2see" ELSE "generic"

\* lib.rs:630-639  the file a title is written to
Bucket(title) ==
    IF title.rating = None THEN "want2see"
    ELSE IF title.rating[1].favorite THEN "favorited" ELSE "generic"

\* lib.rs:590-594  the best remaining alternate title, else the Polish one
ExportTitles(title) ==
    IF title.fw_alter_titles = None \/ title.fw_alter_titles[1] = {}
    THEN { title.fw_title_pl }
    ELSE { x.item.title : x \in PopChoices(title.fw_alter_titles[1]) }

\* lib.rs:596-624  the fields set of the 13; Const is None for "not-found"
Rows(title) ==
    { [Const |-> IF title.imdb_data # None THEN Some(title.imdb_data[1].id) ELSE None,
       YourRating |-> IF title.rating = None THEN "no.vote"
                      ELSE RateString(title.rating[1].rate),
       Title |-> name,
       Year |-> title.year.start] : name \in ExportTitles(title) }

\* lib.rs:589-640  the files after the title is written
export_csv(title, files) ==
    { [files EXCEPT ![Bucket(title)] = Append(@, row)] : row \in Rows(title) }

\* mutant: a declined title loses its vote as well
Downgrade_DropsRating(title) == [title EXCEPT !.imdb_data = None, !.rating = None]

\* mutant: a declined title keeps its match
Downgrade_KeepsMatch(title) == title

\* main.rs:127  `title.imdb_data = None`
Downgrade(title) == [title EXCEPT !.imdb_data = None]

RevPage == rev[1]
RevTitle == rev[2]

\* the position after (p, t) in `for page .. for title ..`
NextPosition(p, t) ==
    IF t < Len(exported_pages[p].rated_titles) THEN <<p, t + 1>> ELSE <<p + 1, 1>>

\* main.rs:107-132  one title of the review loop
ReviewTitle ==
    /\ Running
    /\ main_pc = "review"
    /\ RevPage <= Len(exported_pages)
    /\ LET title == exported_pages[RevPage].rated_titles[RevTitle]
           written == [export_log EXCEPT ![title.fw_id] = Append(@, Bucket(title))]
       IN  IF title.imdb_data = None
           THEN UNCHANGED <<exported_pages, export_files, export_log, prompts>>
           ELSE IF is_duration_ok(title)
           THEN /\ export_files' \in export_csv(title, export_files)
                /\ export_log' = written
                /\ UNCHANGED <<exported_pages, prompts>>
           ELSE \E decision \in Answers :
                  /\ prompts' = [asked |-> [prompts.asked EXCEPT ![title.fw_id] = @ + 1],
                                  last |-> Some([fw_id |-> title.fw_id,
                                                 imdb_data |-> title.imdb_data[1],
                                                 decision |-> decision])]
                  /\ IF IsYes(decision)
                     THEN /\ export_files' \in export_csv(title, export_files)
                          /\ export_log' = written
                          /\ UNCHANGED exported_pages
                     ELSE /\ exported_pages' =
                                [exported_pages EXCEPT
                                   ![RevPage].rated_titles[RevTitle] = Downgrade(@)]
                          /\ UNCHANGED <<export_files, export_log>>
    /\ rev' = NextPosition(RevPage, RevTitle)
    /\ UNCHANGED <<threads, pages, total_pages, main_pc, cat, a_tasks, error_happened, channel,
                   b_pc, b_i, b_tasks, exit_status, sent, received, link_log, err_seen,
                   dvars, lvars, uvars>>

\* main.rs:132-133  the loop is over
ReviewEnd ==
    /\ Running
    /\ main_pc = "review"
    /\ RevPage > Len(exported_pages)
    /\ main_pc' = "print_failed"
    /\ UNCHANGED <<threads, pages, total_pages, cat, a_tasks, error_happened, channel, b_pc,
                   b_i, b_tasks, exported_pages, export_files, rev, exit_status, sent,
                   received, link_log, prompts, export_log, err_seen, dvars, lvars, uvars>>

\* main.rs:133-135, 272-281  print_failed calls print_title on every title
\* without imdb_data; main then returns Ok(())
PrintFailed ==
    /\ Running
    /\ main_pc = "print_failed"
    /\ IF \E p \in DOMAIN exported_pages : \E t \in DOMAIN exported_pages[p].rated_titles :
            /\ exported_pages[p].rated_titles[t].imdb_data = None
            /\ print_title(exported_pages[p].rated_titles[t]) = "panic"
       THEN main_pc' = "panicked" /\ exit_status' = Some(101)
       ELSE main_pc' = "done" /\ exit_status' = Some(0)
    /\ UNCHANGED <<threads, pages, total_pages, cat, a_tasks, error_happened, channel, b_pc,
                   b_i, b_tasks, exported_pages, export_files, rev, sent, received, link_log,
                   prompts, export_log, err_seen, dvars, lvars, uvars>>

Next ==
    \/ ScrapeFwEnter
    \/ \E i \in DOMAIN a_tasks : ATaskStart(i)
    \/ \E i \in DOMAIN a_tasks : ATaskFinish(i)
    \/ ScrapeFwLeave
    \/ BRecv
    \/ \E k \in DOMAIN b_tasks : BTaskStart(k)
    \/ \E k \in DOMAIN b_tasks : BTaskRun(k)
    \/ BScopeEnd
    \/ Join
    \/ ReviewTitle
    \/ ReviewEnd
    \/ PrintFailed

Spec == Init /\ [][Next]_vars

(***************************************************************************)
(* Properties of the pipeline.                                             *)
(***************************************************************************)
\* the pages and the titles of the run
RunPages == UNION { { PageType(c, i) : i \in 1..pages[c] } : c \in 1..3 }
RunTitles ==
    UNION { { FwId(c, i, k) : i \in 1..pages[c], k \in 1..MaxTitlesPerPage } : c \in 1..3 }

ErrorsSeen == { e.err : e \in err_seen }
StrategyPanicked == \E id \in FwIds : link_log[id].result = "panic"
StageBEnded == b_pc \in {"finished", "panicked"}
ReviewReached == b_pc = "finished" /\ main_pc \in {"review", "print_failed", "done", "panicked"}
RowsWritten == \E f \in DOMAIN export_files : export_files[f] # <<>>
CollectedTitles ==
    { exported_pages[p].rated_titles[t].fw_id :
        p \in DOMAIN exported_pages, t \in 1..MaxTitlesPerPage }

\* what C4 and C6 call a pipeline that is through: every page of the run
\* was sent once and received once, the collection holds every page, and
\* the linker ran once on every title, leaving it matched or not found
PipelineThrough ==
    /\ \A t \in RunPages : sent[t] = 1 /\ received[t] = 1
    /\ channel = <<>>
    /\ Len(exported_pages) = total_pages
    /\ { exported_pages[p].page_type : p \in DOMAIN exported_pages } = RunPages
    /\ \A id \in RunTitles :
         /\ link_log[id].runs = 1
         /\ link_log[id].result \in {"found", "not_found"}
         /\ id \in CollectedTitles

\* C4: when no Stage A task reports an error (and no lookup strategy
\* panics), once Stage B has ended every page was sent exactly once and
\* received exactly once, the collection holds exactly the P pages, and the
\* linker ran exactly once on every title of every page, leaving it matched
\* or not found.
C4_EveryPageAndRecordOnce ==
    (err_seen = {} /\ ~StrategyPanicked /\ StageBEnded) => PipelineThrough

\* C5: if no authentication failure occurs (nor any other Stage A error,
\* nor a panic of a lookup strategy) the pipeline completes: the Stage B
\* thread does not die, and a process that has ended got as far as the
\* review.
C5_CompletesAndReachesReview ==
    (err_seen = {} /\ ~StrategyPanicked)
    => /\ b_pc # "panicked"
       /\ exit_status # None => ReviewReached

\* C6: the review never starts while a Stage A or Stage B task is
\* outstanding: whenever main is in or past the review, or a prompt was
\* issued or a row written, no task is left and every page of the run has
\* been scraped, received, linked and pushed.
C6_ReviewAfterPipeline ==
    (main_pc \in {"review", "print_failed", "done"} \/ prompts.last # None \/ RowsWritten)
    => /\ a_tasks = <<>>
       /\ b_tasks = <<>>
       /\ b_pc = "finished"
       /\ PipelineThrough

\* C6 witness: with a pool of two threads, the first prompt has been
\* answered and the first rows are written, every page being in the
\* collection.
C6_Witness ==
    /\ main_pc = "review"
    /\ prompts.last # None
    /\ RowsWritten
    /\ Len(exported_pages) = total_pages
    /\ threads = 2

\* C7: a title that ends not found (imdb_data None) does not disturb the
\* run: no Stage B task and no thread dies of it, the process does not end
\* with a panic, and a run that ends has got through the review and the
\* not-found report with status 0.
C7_NotFoundDoesNotDisturb ==
    (\E id \in FwIds : link_log[id].result = "not_found")
    => /\ \A k \in DOMAIN b_tasks : b_tasks[k].state # "panicked"
       /\ b_pc # "panicked"
       /\ exit_status # Some(101)
       /\ (exit_status # None /\ err_seen = {}) => (main_pc = "done" /\ exit_status = Some(0))

\* C8 as stated: a year-parse failure (InvalidYear) in a Stage A task does
\* not abort the run: the process does not exit because of it.
C8_YearErrorDoesNotAbort ==
    "InvalidYear" \in ErrorsSeen => exit_status # Some(1)

\* C8 amended: a year-parse failure (InvalidYear) in a Stage A task aborts
\* the run: the process has exited with status 1, the page of the failing
\* title was not enqueued, main never left scrape_fw, and no review prompt
\* was issued and no export row written.
C8_YearErrorAborts ==
    \A e \in err_seen :
        e.err = "InvalidYear"
        => /\ exit_status = Some(1)
           /\ sent[e.page_type] = 0
           /\ main_pc = "scope"
           /\ prompts.last = None
           /\ ~RowsWritten

\* C8 witness: a page of serials failed on a year after the page of films
\* was enqueued, and the process has ended.
C8_Witness ==
    /\ \E e \in err_seen : e.err = "InvalidYear" /\ e.page_type.kind = "Serial"
    /\ sent[PageType(1, 1)] = 1
    /\ exit_status = Some(1)

JwtSeen == "InvalidJwt" \in ErrorsSeen

\* C9: once a Stage A task has observed InvalidJwt the run is aborted with
\* a non-zero exit status (1), and from then on no page is enqueued, no
\* review prompt is issued and no export row is written.
C9_InvalidJwtAborts ==
    /\ [](JwtSeen => (exit_status = Some(1) /\ prompts.last = None /\ ~RowsWritten))
    /\ [][JwtSeen => UNCHANGED <<channel, sent, prompts, export_files, export_log>>]_vars

\* C9 witness: a task observed InvalidJwt after another page had been
\* enqueued and received, and the process has ended with status 1.
C9_Witness ==
    /\ JwtSeen
    /\ exit_status = Some(1)
    /\ \E t \in RunPages : sent[t] = 1 /\ received[t] = 1

\* the answers the claim calls "yes" and "no or empty"
YesAnswers == { <<"y", "\n">>, <<" ", "Y", "\n">> }
NoAnswers == { <<"n", "\n">>, <<"\n">> }

Reviewed(p, t) == p < RevPage \/ (p = RevPage /\ t < RevTitle)
TimesAsked(title) == prompts.asked[title.fw_id]
TimesWritten(title) == Len(export_log[title.fw_id])
HasRowOf(title) ==
    \E n \in DOMAIN export_files[Bucket(title)] :
        export_files[Bucket(title)][n].Const = Some(title.imdb_data[1].id)
TitleOf(fw_id) ==
    CHOOSE title \in { exported_pages[p].rated_titles[t] :
                         p \in DOMAIN exported_pages, t \in 1..MaxTitlesPerPage } :
        title.fw_id = fw_id

\* C10: in the review every NeedsReview title (matched, is_duration_ok
\* false) is prompted exactly once; on a "yes" it keeps its match and is
\* exported once with its IMDb id; on a "no" or an empty answer its
\* imdb_data is cleared and it is not exported; a Confirmed title is never
\* prompted; a title the review has not reached is neither.
C10_ReviewDecisions ==
    /\ \A p \in DOMAIN exported_pages : \A t \in DOMAIN exported_pages[p].rated_titles :
         LET title == exported_pages[p].rated_titles[t] IN
         IF ~Reviewed(p, t)
         THEN TimesAsked(title) = 0 /\ TimesWritten(title) = 0
         ELSE IF title.imdb_data = None
         THEN TimesAsked(title) = 1 /\ TimesWritten(title) = 0
         ELSE IF is_duration_ok(title)
         THEN TimesAsked(title) = 0
         ELSE TimesAsked(title) = 1 /\ TimesWritten(title) = 1 /\ HasRowOf(title)
    /\ prompts.last # None
       => LET asked == prompts.last[1]
              title == TitleOf(asked.fw_id)
          IN  /\ ~is_duration_ok([title EXCEPT !.imdb_data = Some(asked.imdb_data)])
              /\ asked.decision \in YesAnswers
                 => /\ title.imdb_data = Some(asked.imdb_data)
                    /\ export_log[asked.fw_id] = <<Bucket(title)>>
                    /\ HasRowOf(title)
              /\ asked.decision \in NoAnswers
                 => /\ title.imdb_data = None
                    /\ export_log[asked.fw_id] = <<>>

\* C10 witness: the review is over; one prompted title was accepted and
\* exported, one was declined and cleared, one Confirmed title was exported
\* without a prompt.
C10_Witness ==
    /\ main_pc = "print_failed"
    /\ \E p \in DOMAIN exported_pages : \E t \in DOMAIN exported_pages[p].rated_titles :
         LET title == exported_pages[p].rated_titles[t] IN
         title.imdb_data # None /\ TimesAsked(title) = 1 /\ TimesWritten(title) = 1
    /\ \E p \in DOMAIN exported_pages : \E t \in DOMAIN exported_pages[p].rated_titles :
         LET title == exported_pages[p].rated_titles[t] IN
         title.imdb_data = None /\ TimesAsked(title) = 1 /\ TimesWritten(title) = 0
    /\ \E p \in DOMAIN exported_pages : \E t \in DOMAIN exported_pages[p].rated_titles :
         LET title == exported_pages[p].rated_titles[t] IN
         title.imdb_data # None /\ TimesAsked(title) = 0 /\ TimesWritten(title) = 1

\* the answers that are neither "yes" nor "no or empty"
InvalidAnswers == Answers \ (YesAnswers \cup NoAnswers)
LastAsked == prompts.last[1]

\* C11 as stated: an answer that is neither yes nor no/empty is no
\* decision: the title's match is unchanged by it (the title is to be
\* prompted again).
C11_InvalidAnswerKeepsMatch ==
    (prompts.last # None /\ LastAsked.decision \in InvalidAnswers)
    => TitleOf(LastAsked.fw_id).imdb_data = Some(LastAsked.imdb_data)

\* C11 amended: an answer that is neither yes nor no/empty is taken as a
\* "no": the title is not prompted again (one prompt in all), its imdb_data
\* is cleared and it is not exported; the review goes on to the next title.
C11_InvalidAnswerIsNo ==
    (prompts.last # None /\ LastAsked.decision \in InvalidAnswers)
    => /\ TitleOf(LastAsked.fw_id).imdb_data = None
       /\ prompts.asked[LastAsked.fw_id] = 1
       /\ export_log[LastAsked.fw_id] = <<>>
       /\ \E p \in DOMAIN exported_pages : \E t \in DOMAIN exported_pages[p].rated_titles :
            exported_pages[p].rated_titles[t].fw_id = LastAsked.fw_id /\ Reviewed(p, t)

\* C11 witness: the last prompt was answered "x", and the review has gone
\* on to write the row of a later title.
C11_Witness ==
    /\ prompts.last # None
    /\ LastAsked.decision = <<"x", "\n">>
    /\ TitleOf(LastAsked.fw_id).imdb_data = None
    /\ \E id \in FwIds : id > LastAsked.fw_id /\ export_log[id] # <<>>

(***************************************************************************)
(* SpecScore: one call of AlternateTitle::score_title (lib.rs:701-717) on  *)
(* a label.                                                                *)
(***************************************************************************)
\* the words a label of the titles page is made of: the markers the code
\* looks for and two words it does not
LabelWords ==
    { "USA", "angielski", "oryginalny", "glowny", "alternatywna pisownia", "inny tytul",
      "Polska", "Hiszpanski", "tytul" }

Labels == SUBSET LabelWords

InitScore ==
    /\ u_in \in { Some(l) : l \in Labels }
    /\ u_out = None
    /\ IdleDuration
    /\ IdleLinker
    /\ IdlePipeline

ScoreTitle ==
    /\ u_out = None
    /\ u_out' = Some(score_title(u_in[1]))
    /\ UNCHANGED <<u_in, dvars, lvars, pvars>>

NextScore == ScoreTitle

SpecScore == InitScore /\ [][NextScore]_vars

\* the classification as the claim words it: the marker groups in their
\* fixed order, each with its score
MarkerOrder ==
    << [markers |-> {"USA", "angielski"}, score |-> 10],
       [markers |-> {"oryginalny"}, score |-> 9],
       [markers |-> {"glowny"}, score |-> 8],
       [markers |-> {"alternatywna pisownia"}, score |-> 7],
       [markers |-> {"inny tytul"}, score |-> 6],
       [markers |-> {"Polska"}, score |-> 5] >>

Matching(label) == { i \in DOMAIN MarkerOrder : MarkerOrder[i].markers \cap label # {} }

FirstMatchScore(label) ==
    IF Matching(label) = {} THEN 0
    ELSE MarkerOrder[CHOOSE i \in Matching(label) : \A j \in Matching(label) : i <= j].score

\* C12: score_title gives every label the score of the first marker group,
\* in the fixed order, that the label contains (10, 9, 8, 7, 6, 5), and 0 to
\* a label with no marker; the result is always in {0, 5, 6, 7, 8, 9, 10}.
C12_FirstMatchWins ==
    u_out # None
    => /\ u_out[1] = FirstMatchScore(u_in[1])
       /\ u_out[1] \in {0, 5, 6, 7, 8, 9, 10}

\* C12 witness: a label holding the original-title, the main-title and the
\* home-locale marker was scored 9.
C12_Witness ==
    /\ u_in = Some({"oryginalny", "glowny", "Polska", "tytul"})
    /\ u_out = Some(9)

\* C13: a title with no source duration whose candidate was found is
\* classified Confirmed (is_duration_ok returns true), whatever the
\* candidate's duration.
C13_NoSourceDurationConfirmed ==
    (d_result # None /\ d_title.fw_duration = None /\ d_title.imdb_data # None)
    => d_result = Some(TRUE)

\* C13 witness: no source duration, a candidate of MaxDuration minutes,
\* classified Confirmed.
C13_Witness ==
    /\ d_title.fw_duration = None
    /\ d_title.imdb_data # None
    /\ d_title.imdb_data[1].duration = MaxDuration
    /\ d_result = Some(TRUE)

(***************************************************************************)
(* SpecExport: one call of FwRatedTitle::export_csv (lib.rs:589-640) on a  *)
(* title, the three files being empty.                                     *)
(***************************************************************************)
\* the titles export_csv is called on.  A vote is absent on every
\* WantsToSee page (lib.rs:330) and where the vote-details call answers
\* null (lib.rs:339-340).
ETitles ==
    { t \in [fw_id : {1},
             fw_title_pl : {"Tytul PL"},
             fw_alter_titles : {None, Some({}), Some(fw_get_titles(ListedTitles))},
             title_type : {"Film", "Serial", "WantsToSee"},
             fw_duration : {Some(50)},
             year : {OneYear(1997), Range(2015, 2019)},
             rating : {None} \cup { Some([rate |-> 7, favorite |-> f]) : f \in BOOLEAN },
             imdb_data : {None, Some([id |-> 1000001, duration |-> 100])}] :
        t.title_type = "WantsToSee" => t.rating = None }

\* ExportFiles::new (lib.rs:658-697): three files holding their header only
EmptyFiles == [generic |-> <<>>, want2see |-> <<>>, favorited |-> <<>>]

InitExport ==
    /\ u_in \in { Some(t) : t \in ETitles }
    /\ u_out = None
    /\ IdleDuration
    /\ IdleLinker
    /\ IdlePipeline

ExportCsv ==
    /\ u_out = None
    /\ \E files \in export_csv(u_in[1], EmptyFiles) : u_out' = Some(files)
    /\ UNCHANGED <<u_in, dvars, lvars, pvars>>

NextExport == ExportCsv

SpecExport == InitExport /\ [][NextExport]_vars

\* the bucket as the claim words it
BucketByRating(rating) ==
    IF rating = None THEN "want2see"
    ELSE IF rating[1].favorite = TRUE THEN "favorited" ELSE "generic"

\* C14: an exported title is written to exactly one of the three files
\* (one row there, none in the other two), and the file depends on its
\* rating only: favorite -> favorited, rated and not favorite -> generic,
\* no rating -> want2see.
C14_OneBucketByRating ==
    u_out # None
    => \A f \in DOMAIN u_out[1] :
         Len(u_out[1][f]) = IF f = BucketByRating(u_in[1].rating) THEN 1 ELSE 0

\* C14 witness: a favorite serial was written to favorited only.
C14_Witness ==
    /\ u_out # None
    /\ u_in[1].title_type = "Serial"
    /\ u_in[1].rating = Some([rate |-> 7, favorite |-> TRUE])
    /\ Len(u_out[1].favorited) = 1
    /\ u_out[1].generic = <<>>
    /\ u_out[1].want2see = <<>>

LastAttempt == l_attempts[Len(l_attempts)]

\* C15: for each popped title the listing search (advanced) is called
\* first and the exact search second, the second only after the first
\* returned an error for the same title; the first Ok sets imdb_data and is
\* the last strategy call made for the title record; an error result of a
\* strategy ends nothing: the next strategy, or the next pop, follows.
C15_StrategyOrder ==
    /\ \A i \in DOMAIN l_attempts :
         /\ l_attempts[i].strategy = "advanced"
            => (i = 1 \/ (/\ l_attempts[i - 1].strategy = "exact"
                          /\ l_attempts[i - 1].tag = "Err"))
         /\ l_attempts[i].strategy = "exact"
            => /\ i > 1
               /\ l_attempts[i - 1].strategy = "advanced"
               /\ l_attempts[i - 1].item = l_attempts[i].item
               /\ l_attempts[i - 1].tag = "Err"
         /\ l_attempts[i].tag = "Ok"
            => (i = Len(l_attempts) /\ l_pc = "done" /\ l_title.imdb_data # None)
    /\ l_title.imdb_data # None
       => (l_attempts # <<>> /\ LastAttempt.tag = "Ok"
           /\ l_title.imdb_data[1].id = ImdbIdOf(LastAttempt.item.title))
    /\ (l_attempts # <<>> /\ LastAttempt.tag = "Err")
       => /\ l_title.imdb_data = None
          /\ IF LastAttempt.strategy = "advanced" THEN l_pc = "exact"
             ELSE l_pc \in {"pop", "advanced", "done"}
          /\ l_pc = "done" => (LQueue = {} \/ l_pops[Len(l_pops)].priority = FloorScore)

\* C15 witness: the first title missed in both strategies, the second
\* missed in the listing search and was found by the exact search, which
\* ended the search.
C15_Witness ==
    /\ Len(l_attempts) = 4
    /\ [i \in 1..4 |-> l_attempts[i].strategy] = <<"advanced", "exact", "advanced", "exact">>
    /\ [i \in 1..4 |-> l_attempts[i].tag] = <<"Err", "Err", "Err", "Ok">>
    /\ l_attempts[1].item # l_attempts[3].item
    /\ l_pc = "done"
    /\ LQueue # {}

\* the entries the queue holds or held
LEntries == LQueue \cup { l_pops[i] : i \in DOMAIN l_pops }

\* C16 as stated: the queue the linker iterates holds the title's
\* canonical title (fw_title_pl) besides its alternate titles, so a title
\* with no alternate title listed still has its canonical title attempted.
C16_CanonicalTitleInQueue ==
    (l_pc = "done" /\ l_pops = <<>>)
    => \E i \in DOMAIN l_attempts : l_attempts[i].item.title = l_title.fw_title_pl

\* C16 amended: the queue holds the alternate titles the titles page lists,
\* each with the score of its label, and nothing else: the canonical title
\* is not added to it; a title with no alternate title listed has no title
\* attempted and ends not found.
C16_OnlyListedTitles ==
    /\ \A x \in LEntries :
         /\ x.item \in AlterPool
         /\ x.priority = score_title(x.item.language)
         /\ x.item.title # l_title.fw_title_pl
    /\ \A i \in DOMAIN l_attempts : l_attempts[i].item.title # l_title.fw_title_pl
    /\ (l_pc = "done" /\ l_pops = <<>>)
       => (l_attempts = <<>> /\ l_title.imdb_data = None)

\* C16 witness: no alternate title was listed; the search is over with no
\* strategy call and no match.
C16_Witness ==
    /\ l_pc = "done"
    /\ l_pops = <<>>
    /\ LQueue = {}
    /\ l_attempts = <<>>
    /\ l_title.imdb_data = None

\* the record scrape_from_page pushed for the k-th title of a page: the
\* one made from the vote box that raises no error
Scraped(page_type, k) ==
    FwRatedTitle(page_type, k,
                 CHOOSE box \in VoteBoxes(page_type.kind, k) :
                     BoxError(page_type.kind, box) = "none")

\* the records Stage A has sent and Stage B has not linked yet are as scraped
UnlinkedAsScraped ==
    /\ \A n \in DOMAIN channel : \A k \in DOMAIN channel[n].rated_titles :
         channel[n].rated_titles[k] = Scraped(channel[n].page_type, k)
    /\ \A n \in DOMAIN b_tasks : \A k \in DOMAIN b_tasks[n].page.rated_titles :
         b_tasks[n].page.rated_titles[k] = Scraped(b_tasks[n].page.page_type, k)

\* C17 as stated: the linker and the review change a scraped record in
\* imdb_data only: its id, canonical title, alternate-title set, category,
\* year, source duration and rating stay as scraped.
C17_OnlyMatchChanges ==
    /\ UnlinkedAsScraped
    /\ \A p \in DOMAIN exported_pages : \A k \in DOMAIN exported_pages[p].rated_titles :
         [exported_pages[p].rated_titles[k] EXCEPT !.imdb_data = None]
             = Scraped(exported_pages[p].page_type, k)

\* C17 amended: the linker and the review change a scraped record in
\* imdb_data and in its alternate-title queue only, and the queue only
\* loses entries (those the linker popped); its id, canonical title,
\* category, year, source duration and rating stay as scraped.
C17_OnlyMatchAndQueueChange ==
    /\ UnlinkedAsScraped
    /\ \A p \in DOMAIN exported_pages : \A k \in DOMAIN exported_pages[p].rated_titles :
         LET title == exported_pages[p].rated_titles[k]
             scraped == Scraped(exported_pages[p].page_type, k)
         IN  /\ [title EXCEPT !.imdb_data = None, !.fw_alter_titles = scraped.fw_alter_titles]
                   = scraped
             /\ title.fw_alter_titles # None
             /\ title.fw_alter_titles[1] \subseteq scraped.fw_alter_titles[1]

\* C17 witness: the review is over; one title was declined, one keeps its
\* match, and the queue of a title is shorter than scraped.
C17_Witness ==
    /\ main_pc = "print_failed"
    /\ \E p \in DOMAIN exported_pages : \E k \in DOMAIN exported_pages[p].rated_titles :
         /\ exported_pages[p].rated_titles[k].imdb_data = None
         /\ prompts.asked[exported_pages[p].rated_titles[k].fw_id] = 1
    /\ \E p \in DOMAIN exported_pages : \E k \in DOMAIN exported_pages[p].rated_titles :
         /\ exported_pages[p].rated_titles[k].imdb_data # None
         /\ exported_pages[p].rated_titles[k].fw_alter_titles[1]
              # Scraped(exported_pages[p].page_type, k).fw_alter_titles[1]

(***************************************************************************)
(* The page counts main derives from the title counts (main.rs:84-89),     *)
(* taken alone over counts of the whole u16 range.                         *)
(***************************************************************************)

\* lib.rs:50-54  TitlesCount: three u16 counts
U16Counts == { 0, 24, 25, 3200, 6374, 6375, 65535 }

\* main.rs:86-89  the three page counts and their sum.  The u8 sum wraps
\* in a build without overflow checks and panics in a build with them.
PageCounts(counts) ==
    LET pg == <<PagesOf(counts[1]), PagesOf(counts[2]), PagesOf(counts[3])>>
        wrapped == [pages |-> pg, panicked |-> FALSE, total_pages |-> TotalPages(pg)]
        overflow == [pages |-> pg, panicked |-> TRUE, total_pages |-> 0]
    IN  IF pg[1] + pg[2] + pg[3] = TotalPages(pg) /\ pg[1] + pg[2] < 256
        THEN { wrapped }
        ELSE { wrapped, overflow }

InitPages ==
    /\ u_in \in { Some(<<films, serials, marked_to_see>>) :
                    films \in U16Counts, serials \in U16Counts, marked_to_see \in U16Counts }
    /\ u_out = None
    /\ IdleDuration
    /\ IdleLinker
    /\ IdlePipeline

CountPages ==
    /\ u_out = None
    /\ \E r \in PageCounts(u_in[1]) : u_out' = Some(r)
    /\ UNCHANGED <<u_in, dvars, lvars, pvars>>

NextPages == CountPages

SpecPages == InitPages /\ [][NextPages]_vars

\* C18 as stated: for every u16 count c the category gets floor(c/25)+1
\* pages, and the number of pages Stage B waits for is the sum of the three
\* page counts: nothing is truncated and nothing wraps around.
C18_PageCountsExact ==
    u_out # None =>
        /\ \A c \in 1..3 : u_out[1].pages[c] = (u_in[1][c] \div PageSize) + 1
        /\ ~u_out[1].panicked
        /\ u_out[1].total_pages = u_out[1].pages[1] + u_out[1].pages[2] + u_out[1].pages[3]

(***************************************************************************)
(* Stage A alone (main.rs:94-101, 173-238): the three scrape_fw calls with *)
(* every category holding up to MaxCategoryPages pages, so that a pool has *)
(* more tasks than threads.                                                *)
(***************************************************************************)
InitScrape ==
    /\ \E films, serials, marked_to_see \in CountChoices :
         /\ pages = <<PagesOf(films), PagesOf(serials), PagesOf(marked_to_see)>>
         /\ \A c \in 1..3 : pages[c] <= MaxCategoryPages
    /\ InitMain

NextScrape ==
    \/ ScrapeFwEnter
    \/ \E i \in DOMAIN a_tasks : ATaskStart(i)
    \/ \E i \in DOMAIN a_tasks : ATaskFinish(i)
    \/ ScrapeFwLeave

SpecScrape == InitScrape /\ [][NextScrape]_vars

\* the page tasks in flight are never more than the pool's threads
WithinPool == Cardinality(ARunning) <= threads

\* C19 as stated: page tasks of different categories can be in flight at
\* the same time (while a page task of one category runs, the tasks of the
\* next category can be dispatched), and at no time are more page tasks in
\* flight than the pool size.
C19_CategoriesOverlap ==
    /\ (Running /\ ARunning # {} /\ cat < Len(Categories)) => ENABLED ScrapeFwEnter
    /\ WithinPool

\* C19 amended: page tasks of different categories are never in flight
\* together: while tasks of a category exist every page of the earlier
\* categories has been sent and no page of a later category has been, and
\* at no time are more page tasks in flight than the pool size.
C19_CategoriesInTurn ==
    /\ \A c \in 1..Len(Categories) : \A i \in 1..pages[c] :
         /\ (a_tasks # <<>> /\ c < cat) => sent[PageType(c, i)] = 1
         /\ c > cat => sent[PageType(c, i)] = 0
    /\ WithinPool

\* C19 witness: a Serial page task runs with every thread of the pool
\* busy and another task of the category waiting, after several Film pages.
C19_Witness ==
    /\ cat = 2
    /\ pages[1] > 1
    /\ Cardinality(ARunning) = threads
    /\ \E i \in DOMAIN a_tasks : a_tasks[i] = "queued"

(***************************************************************************)
(* FwRatedTitle::get_imdb_data (lib.rs:497-587) taken alone, on detail     *)
(* pages whose duration slot holds up to MaxTokens numeric tokens.         *)
(***************************************************************************)
\* the u32 values `s.parse::<u32>()` may yield for a token (lib.rs:563)
TokenValues == { 0, 1, 40, 100 }

SlotTokens == UNION { [1..n -> TokenValues] : n \in 0..MaxTokens }

InitExact ==
    /\ u_in \in { Some([title |-> "Title", resp |-> [kind |-> "detail", tokens |-> t]]) :
                    t \in SlotTokens }
    /\ u_out = None
    /\ IdleDuration
    /\ IdleLinker
    /\ IdlePipeline

ExactSearch ==
    /\ u_out = None
    /\ u_out' = Some(get_imdb_data(u_in[1].title, u_in[1].resp))
    /\ UNCHANGED <<u_in, dvars, lvars, pvars>>

NextExact == ExactSearch

SpecExact == InitExact /\ [][NextExact]_vars

\* C20 as stated: in ExactSearch two numeric tokens [h, m] give h*60 + m
\* minutes, one token [m] gives m minutes, and any other number of tokens
\* (none included) makes the strategy fail as an ordinary miss: it neither
\* crashes nor yields a duration.
C20_TokensResolve ==
    u_out # None =>
        LET tokens == u_in[1].resp.tokens
            id == ImdbIdOf(u_in[1].title)
        IN  CASE Len(tokens) = 2 -> u_out[1] = Ok(id, tokens[1] * 60 + tokens[2])
              [] Len(tokens) = 1 -> u_out[1] = Ok(id, tokens[1])
              [] OTHER -> u_out[1].tag = "Err"

\* the review loop has run to its end (main.rs:107-132)
ReviewOver == b_pc = "finished" /\ main_pc \in {"print_failed", "done", "panicked"}

\* the rows of the three export files, counted
RowCount ==
    Len(export_files.generic) + Len(export_files.want2see) + Len(export_files.favorited)

\* C21: once the review is over a record has been written to the export
\* files exactly once if it ends Confirmed (it holds a match: accepted by
\* the duration check or by the reviewer) and not at all otherwise (not
\* found, or rejected in the review); at no time is a record written twice
\* or a row written without an IMDb id.
C21_WrittenOnceIffConfirmed ==
    /\ \A id \in FwIds : Len(export_log[id]) <= 1
    /\ RowCount = Cardinality({ id \in FwIds : export_log[id] # <<>> })
    /\ \A f \in DOMAIN export_files : \A n \in DOMAIN export_files[f] :
         export_files[f][n].Const # None
    /\ ReviewOver
       => \A p \in DOMAIN exported_pages : \A t \in DOMAIN exported_pages[p].rated_titles :
            LET title == exported_pages[p].rated_titles[t] IN
            IF title.imdb_data # None
            THEN export_log[title.fw_id] = <<Bucket(title)>> /\ HasRowOf(title)
            ELSE export_log[title.fw_id] = <<>>

\* C21 witness: the review is over with a title accepted by the duration
\* check, a title accepted by the reviewer and a title the reviewer
\* rejected, and as many rows as there are titles left with a match.
C21_Witness ==
    /\ ReviewOver
    /\ \E p \in DOMAIN exported_pages : \E t \in DOMAIN exported_pages[p].rated_titles :
         LET title == exported_pages[p].rated_titles[t] IN
         title.imdb_data # None /\ TimesAsked(title) = 0 /\ TimesWritten(title) = 1
    /\ \E p \in DOMAIN exported_pages : \E t \in DOMAIN exported_pages[p].rated_titles :
         LET title == exported_pages[p].rated_titles[t] IN
         title.imdb_data # None /\ TimesAsked(title) = 1 /\ TimesWritten(title) = 1
    /\ \E p \in DOMAIN exported_pages : \E t \in DOMAIN exported_pages[p].rated_titles :
         LET title == exported_pages[p].rated_titles[t] IN
         title.imdb_data = None /\ TimesAsked(title) = 1 /\ TimesWritten(title) = 0
    /\ RowCount < Cardinality(RunTitles)

=============================================================================
